---- MODULE Spec2Model ----
(***************************************************************************)
(* OSP daemon core (ospd/ospd.py): the accept loop of OSPDaemon.run, the   *)
(* per-connection read loop, the command dispatch of handle_command with   *)
(* its handlers, the scan collection they share with the scan threads, and *)
(* the scan threads themselves (the exec_scan hook of a wrapper).          *)
(*                                                                         *)
(* The dispatch thread is a process with a program counter pc: it yields   *)
(* to the scan threads between two accesses of the scan collection.        *)
(* ospd.misc.ScanCollection is not part of the sources at hand; its        *)
(* operations are written from the registry contract (section 4.1).        *)
(***************************************************************************)
EXTENDS Integers, Sequences, FiniteSets, TLC

\* ------------------------------------------------------------------ bounds
MaxScans == 2      \* scans created in one run of the daemon
MaxThreadSteps == 3 \* calls and exits of the scan threads, all together
MaxChunks == 2     \* stream.read() calls that return data, per connection

\* ----------------------------------------------------- values of the model
\* attrib.get(name) of an attribute the request does not carry
None == "None"
\* scan_et.attrib.get('scan_id') of a request without the attribute
NoScanId == -1
\* the scan_id attribute given as the empty string
EmptyScanId == 0
\* the ids ScanCollection.create_scan hands out: 1, 2, ...
ScanIds == 1 .. MaxScans
Target == "10.0.0.1"
InitialProgress == 0
WorkerProgress == 40
FinishedProgress == 100

\* get_commands_table(): the keys of the command table
commands ==
  {"start_scan", "help", "get_scans", "delete_scan", "get_version",
   "get_scanner_details"}

\* OSPDaemon.command_exists
EveryCommandExists(name) == TRUE

command_exists(name) == name \in commands

\* The scanner parameters a wrapper declares with init_scanner_params
scanner_params ==
  [scan_type |-> [name |-> "Scan type", default |-> "full"],
   port |-> [name |-> "Port", default |-> "80"]]

\* self.scanner_params[param].get('default', '')
ParamDefault(param) ==
  IF "default" \in DOMAIN scanner_params[param]
  THEN scanner_params[param].default ELSE ""

\* the values a client gives to a parameter
ClientValues == {"quick"}

\* the children of a <scanner_params> element: a value for each parameter
\* of a subset of the declared ones
ClientParams ==
  UNION {[S -> ClientValues] : S \in SUBSET (DOMAIN scanner_params)}

\* handle_start_scan_command, lines 205-213: the client's parameters, then
\* the default of every declared parameter the client did not give
MergeDropsClient(params) ==
  [p \in DOMAIN scanner_params |-> ParamDefault(p)]

MergeParams(params) ==
  [p \in (DOMAIN params) \cup (DOMAIN scanner_params) |->
     IF p \in DOMAIN params THEN params[p] ELSE ParamDefault(p)]

\* OSPDaemon.process_scan_params: the identity unless a wrapper overrides it
process_scan_params(params) == params

\* simple_response_str, lines 96-98: assert command, assert status, assert
\* status_text; '', 0 and None are false
Asserted(command, status, status_text) ==
  command \notin {"", None} /\ status # 0 /\ status_text \notin {"", None}

\* ------------------------------------------------------------- responses
\* simple_response_str(command, status, status_text, content): the response
\* element, kept as its four parts
simple_response_str(command, status, status_text, content) ==
  [command |-> command, status |-> status, status_text |-> status_text,
   content |-> content]

\* OSPDError(message, command='osp', status=400)
OSPDError(message, command) ==
  [message |-> message, command |-> command, status |-> 400]

\* OSPDError.asXML
asXMLNoText(e) == simple_response_str(e.command, e.status, "", <<>>)

asXML(e) == simple_response_str(e.command, e.status, e.message, <<>>)

\* no response built yet
NoResponse == simple_response_str("", 0, "", <<>>)

\* -------------------------------------------------------------- requests
\* One XML document a client sends, as ET.fromstring sees it. xml: whether
\* the bytes are well-formed XML; tag: the root tag; the rest: the
\* attributes and the <scanner_params> child the handlers look at.
Request(tag, target, has_params, params, sid, details, format) ==
  [xml |-> TRUE, tag |-> tag, target |-> target,
   has_params |-> has_params, scanner_params |-> params,
   scan_id |-> sid, details |-> details, format |-> format]

NoParams == [p \in {} |-> ""]

Bare(tag) == Request(tag, None, FALSE, NoParams, NoScanId, None, None)

Malformed == [Bare("") EXCEPT !.xml = FALSE]

NoRequest == Bare("None")

RequestScanIds == {NoScanId, EmptyScanId} \cup ScanIds

\* the requests without a <scanner_params> child that names a parameter
\* and without a details attribute (DetailRequests has those)
PlainRequests ==
  {Malformed}
  \cup {Bare(t) : t \in {"get_version", "get_scanner_details",
                         "authenticate", "bogus_command"}}
  \cup {Request("help", None, FALSE, NoParams, NoScanId, None, f) :
          f \in {None, "text", "xml", "html"}}
  \cup {Request("start_scan", t, h, NoParams, NoScanId, None, None) :
          t \in {None, Target}, h \in BOOLEAN}
  \cup {Request("get_scans", None, FALSE, NoParams, s, None, None) :
          s \in RequestScanIds}
  \cup {Request("delete_scan", None, FALSE, NoParams, s, None, None) :
          s \in RequestScanIds}

\* the start_scan requests, with every choice of client parameters, and
\* the get_scans requests (details='1') that show the scans they create
ParamRequests ==
  {Request("start_scan", t, TRUE, p, NoScanId, None, None) :
          t \in {None, Target}, p \in ClientParams}
  \cup {Request("start_scan", Target, FALSE, NoParams, NoScanId, None, None)}
  \cup {Request("get_scans", None, FALSE, NoParams, s, "1", None) :
          s \in RequestScanIds}
  \cup {Request("delete_scan", None, FALSE, NoParams, s, None, None) :
          s \in ScanIds}

\* the requests that create, show and delete scans, without the results
TimeoutRequests ==
  {Request("start_scan", Target, TRUE, NoParams, NoScanId, None, None)}
  \cup {Request("get_scans", None, FALSE, NoParams, s, "0", None) :
          s \in ScanIds}
  \cup {Request("delete_scan", None, FALSE, NoParams, s, None, None) :
          s \in ScanIds}

\* requests of every command
LoopRequests ==
  {Malformed, Bare("get_version"), Bare("authenticate"),
   Request("start_scan", Target, TRUE, NoParams, NoScanId, None, None)}
  \cup {Request("get_scans", None, FALSE, NoParams, s, None, None) :
          s \in {NoScanId} \cup ScanIds}
  \cup {Request("delete_scan", None, FALSE, NoParams, s, None, None) :
          s \in ScanIds}

\* the get_scans requests, with every choice of details, and the requests
\* that create and delete the scans they show
DetailRequests ==
  {Request("start_scan", Target, TRUE, NoParams, NoScanId, None, None)}
  \cup {Request("get_scans", None, FALSE, NoParams, s, d, None) :
          s \in RequestScanIds, d \in {None, "0", "1"}}
  \cup {Request("delete_scan", None, FALSE, NoParams, s, None, None) :
          s \in ScanIds}

\* a Python value used as a condition: None and '' are false
Truthy(s) == s # NoScanId /\ s # EmptyScanId

\* ------------------------------------------------------- scan collection
\* One result of a scan (ospd.misc: type, name, value, severity); the
\* severity is empty but for alarms.
Result(type, name, value) ==
  [type |-> type, name |-> name, value |-> value, severity |-> ""]

ThreadFailure == Result("Error", "", "Scan thread failure.")
TimeoutError == Result("Error", "Timeout", "No name exec timeout.")
LogResult == Result("Log", "log", "<log>")

\* ScanCollection.create_scan: a new record with progress 0
create_scan(sc, id, target, options) ==
  sc @@ (id :> [target |-> target, options |-> options,
                progress |-> InitialProgress, start_time |-> 1,
                end_time |-> 0, results |-> <<>>, thread |-> "none"])

\* ScanCollection.set_thread
set_thread(sc, id, t) == [sc EXCEPT ![id].thread = t]

\* ScanCollection.set_progress: a point accessor; the end time is set when
\* the progress reaches 100
set_progress(sc, id, p) ==
  [sc EXCEPT ![id].progress = p,
             ![id].end_time = IF p = FinishedProgress THEN 1 ELSE @]

\* ScanCollection.add_log / add_error / add_alarm: append to the results
add_result(sc, id, r) == [sc EXCEPT ![id].results = Append(@, r)]

\* ScanCollection.id_exists
id_exists(sc, id) == id \in DOMAIN sc

\* ScanCollection.delete_scan: whether the scan may be removed (it is
\* terminal), and the collection without it
may_delete(sc, id) == sc[id].progress = FinishedProgress

without_scan(sc, id) == [i \in (DOMAIN sc) \ {id} |-> sc[i]]

\* ScanCollection.ids_iterator: the registered ids, here in ascending order
RECURSIVE SeqOf(_)
SeqOf(S) ==
  IF S = {} THEN <<>>
  ELSE LET m == CHOOSE x \in S : \A y \in S : x <= y
       IN <<m>> \o SeqOf(S \ {m})

ids_iterator(sc) == SeqOf(DOMAIN sc)

\* threading.Thread.is_alive
is_alive(t) == t \in {"alive", "timeout"}

\* ------------------------------------------------------------------ state
VARIABLES
  scan_collection,  \* self.scan_collection: scan id -> scan record
  next_id,          \* the next id create_scan hands out
  pc,               \* where the dispatch thread is
  peer,             \* the client of the current connection
  data,             \* handle_client_stream: the chunks read so far
  tree,             \* handle_command: the parsed request
  scan_id,          \* the scan the handler is working on
  ids,              \* get_scans: the ids still to list
  progress,         \* check_scan_thread / get_scan_xml: the progress read
  end_time,         \* get_scan_xml: the end time read
  response,         \* the response being built, then the one to write
  written,          \* the responses written on the current connection
  touched,          \* whether the handler has changed the scan collection
  steps,            \* the steps the scan threads have taken
  seen,             \* the scan the request names, as handle_command found it
  instants          \* get_scan_xml: the <scan> elements of the states its
                    \* scan has had since the call

vars ==
  <<scan_collection, next_id, pc, peer, data, tree, scan_id, ids, progress,
    end_time, response, written, touched, steps, seen, instants>>

Init ==
  /\ scan_collection = [i \in {} |-> 0]
  /\ next_id = 1
  /\ pc = "accept"
  /\ peer = "none"
  /\ data = 0
  /\ tree = NoRequest
  /\ scan_id = NoScanId
  /\ ids = <<>>
  /\ progress = 0
  /\ end_time = 0
  /\ response = NoResponse
  /\ written = <<>>
  /\ touched = FALSE
  /\ steps = 0
  /\ seen = <<>>
  /\ instants = {}

\* ------------------------------------------------- the dispatch thread
\* the handler's local variables, cleared when it returns
ClearLocals ==
  /\ scan_id' = NoScanId
  /\ ids' = <<>>
  /\ progress' = 0
  /\ end_time' = 0

\* handle_client_stream, line 315: handle_command returned r, or the
\* AssertionError of simple_response_str leaves run()
Return(r) ==
  /\ pc' = IF Asserted(r.command, r.status, r.status_text)
           THEN "write" ELSE "crashed"
  /\ response' = IF Asserted(r.command, r.status, r.status_text)
                 THEN r ELSE NoResponse
  /\ ClearLocals

\* handle_client_stream without its except clause: the error leaves run()
Uncaught(e) ==
  /\ pc' = "crashed"
  /\ response' = NoResponse
  /\ ClearLocals

\* handle_client_stream, lines 316-317: except OSPDError as e
Raise(e) == Return(asXML(e))

\* handle_command, line 577: assert False is no OSPDError
AssertFalse ==
  /\ pc' = "crashed"
  /\ response' = NoResponse
  /\ ClearLocals

\* OSPDaemon.new_client_stream: the TLS handshake fails and run() continues
NewClientStreamFails ==
  /\ pc = "accept"
  /\ UNCHANGED vars

\* OSPDaemon.new_client_stream: a client is connected
NewClientStream ==
  /\ pc = "accept"
  /\ pc' = "read"
  /\ peer' = "open"
  /\ data' = 0
  /\ UNCHANGED <<scan_collection, next_id, tree, scan_id, ids, progress,
                 end_time, response, written, touched, steps, seen>>
  /\ UNCHANGED instants

\* the client closes its side of the connection
PeerCloses ==
  /\ pc = "read"
  /\ peer = "open"
  /\ peer' = "closed"
  /\ UNCHANGED <<scan_collection, next_id, pc, data, tree, scan_id, ids,
                 progress, end_time, response, written, touched, steps, seen>>
  /\ UNCHANGED instants

\* handle_client_stream, line 301: stream.read returns a chunk
ReadChunk ==
  /\ pc = "read"
  /\ peer = "open"
  /\ data < MaxChunks
  /\ data' = data + 1
  /\ UNCHANGED <<scan_collection, next_id, pc, peer, tree, scan_id, ids,
                 progress, end_time, response, written, touched, steps, seen>>
  /\ UNCHANGED instants

\* handle_client_stream, lines 301-304: stream.read returns '' (the client
\* is gone); the loop returns when nothing was read and goes on otherwise
ReadNothing ==
  /\ pc = "read"
  /\ peer = "closed"
  /\ IF data = 0
     THEN /\ pc' = "close"
          /\ peer' = "none"
     ELSE UNCHANGED <<pc, peer>>
  /\ UNCHANGED <<scan_collection, next_id, data, tree, scan_id, ids,
                 progress, end_time, response, written, touched, steps, seen>>
  /\ UNCHANGED instants

\* handle_client_stream, lines 305-307: stream.read raises AttributeError
\* or ValueError
ReadFails ==
  /\ pc = "read"
  /\ pc' = "close"
  /\ peer' = "none"
  /\ data' = 0
  /\ UNCHANGED <<scan_collection, next_id, tree, scan_id, ids, progress,
                 end_time, response, written, touched, steps, seen>>
  /\ UNCHANGED instants

\* handle_client_stream, lines 300-310: stream.read raises socket.error (the
\* connection is reset by the client); no except clause of the loop names
\* it, run() has none either: the error leaves handle_client_stream and run()
ReadRaises ==
  /\ pc = "read"
  /\ peer = "open"
  /\ pc' = "crashed"
  /\ peer' = "none"
  /\ data' = 0
  /\ UNCHANGED <<scan_collection, next_id, tree, scan_id, ids, progress,
                 end_time, response, written, touched, steps, seen>>
  /\ UNCHANGED instants

\* OSPDaemon.handle_get_version_command
handle_get_version_command ==
  /\ Return(simple_response_str("get_version", 200, "OK",
                                <<[text |-> "versions"]>>))
  /\ UNCHANGED <<scan_collection, next_id, touched, steps>>

\* OSPDaemon.handle_get_scanner_details
handle_get_scanner_details ==
  /\ Return(simple_response_str("get_scanner_details", 200, "OK",
                                <<[text |-> "details"]>>))
  /\ UNCHANGED <<scan_collection, next_id, touched, steps>>

\* OSPDaemon.handle_help_command
handle_help_command(scan_et) ==
  /\ IF scan_et.format = None \/ scan_et.format = "text"
     THEN Return(simple_response_str("help", 200, "OK",
                                     <<[text |-> "help text"]>>))
     ELSE IF scan_et.format = "xml"
     THEN Return(simple_response_str("help", 200, "OK",
                                     <<[text |-> "help xml"]>>))
     ELSE Raise(OSPDError("Bogus help format", "help"))
  /\ UNCHANGED <<scan_collection, next_id, touched, steps>>

\* OSPDaemon.start_scan: a thread for exec_scan, recorded and started
RunsScanInline(sc, id) ==
  set_thread(set_progress(sc, id, FinishedProgress), id, "dead")

start_scan(sc, id) == set_thread(sc, id, "alive")

\* handle_start_scan_command, lines 199-204: what the request lacks
OnlyTargetNeeded(scan_et) ==
  IF scan_et.target = None THEN "No target attribute" ELSE ""

MissingField(scan_et) ==
  IF scan_et.target = None THEN "No target attribute"
  ELSE IF ~scan_et.has_params THEN "No scanner_params element"
  ELSE ""

\* OSPDaemon.handle_start_scan_command
handle_start_scan_command(scan_et) ==
  IF MissingField(scan_et) # ""
  THEN /\ Raise(OSPDError(MissingField(scan_et), "start_scan"))
       /\ UNCHANGED <<scan_collection, next_id, touched, steps>>
  ELSE /\ next_id <= MaxScans
       /\ LET params == MergeParams(scan_et.scanner_params)
              created == create_scan(scan_collection, next_id,
                                     scan_et.target,
                                     process_scan_params(params))
          IN scan_collection' = start_scan(created, next_id)
       /\ next_id' = next_id + 1
       /\ touched' = TRUE
       /\ UNCHANGED steps
       /\ Return(simple_response_str("start_scan", 200, "OK",
                                     <<[id |-> next_id]>>))

\* handle_get_scans_command, lines 368-372 and 508: whether the results
\* are part of a <scan> element
Detailed(scan_et) == scan_et.details # "0"

\* handle_get_scans_command, lines 375 and 383: the next scan to check and
\* to format, the others waiting in ids
NextScanOnly(todo) ==
  /\ pc' = "check_scan_thread"
  /\ scan_id' = Head(todo)
  /\ ids' = <<>>
  /\ progress' = 0
  /\ end_time' = 0

NextScan(todo) ==
  /\ pc' = "check_scan_thread"
  /\ scan_id' = Head(todo)
  /\ ids' = Tail(todo)
  /\ progress' = 0
  /\ end_time' = 0

\* handle_get_scans_command, line 387
GetScansDone(content) ==
  Return(simple_response_str("get_scans", 200, "OK", content))

\* handle_get_scans_command, lines 375, 379 and 382: which scans to list
ListEvenEmptyId(sid) == sid # NoScanId

OneScan(sid) == Truthy(sid)

\* OSPDaemon.handle_get_scans_command, up to the first scan
handle_get_scans_command(scan_et) ==
  /\ UNCHANGED <<scan_collection, next_id, touched, steps>>
  /\ IF OneScan(scan_et.scan_id)
        /\ scan_et.scan_id \in DOMAIN scan_collection
     THEN /\ NextScan(<<scan_et.scan_id>>)
          /\ response' = NoResponse
     ELSE IF OneScan(scan_et.scan_id)
     THEN Return(simple_response_str("get_scans", 404,
                                     "Failed to find scan", <<>>))
     ELSE IF ids_iterator(scan_collection) = <<>>
     THEN GetScansDone(<<>>)
     ELSE /\ NextScan(ids_iterator(scan_collection))
          /\ response' = NoResponse

\* OSPDaemon.handle_delete_scan_command, up to check_scan_thread
handle_delete_scan_command(scan_et) ==
  /\ UNCHANGED <<scan_collection, next_id, touched, steps>>
  /\ IF scan_et.scan_id = NoScanId
     THEN Return(simple_response_str("delete_scan", 404,
                                     "No scan_id attribute", <<>>))
     ELSE IF ~id_exists(scan_collection, scan_et.scan_id)
     THEN Return(simple_response_str("delete_scan", 404,
                                     "Failed to find scan", <<>>))
     ELSE /\ NextScan(<<scan_et.scan_id>>)
          /\ response' = NoResponse

\* OSPDaemon.handle_command
handle_command(command) ==
  /\ tree' = command
  /\ seen' = IF command.scan_id \in DOMAIN scan_collection
             THEN <<scan_collection[command.scan_id]>> ELSE <<>>
  /\ IF ~command.xml
     THEN /\ Raise(OSPDError("Invalid data", "osp"))
          /\ UNCHANGED <<scan_collection, next_id, touched, steps>>
     ELSE IF ~command_exists(command.tag) /\ command.tag # "authenticate"
     THEN /\ Raise(OSPDError("Bogus command name", "osp"))
          /\ UNCHANGED <<scan_collection, next_id, touched, steps>>
     ELSE IF command.tag = "get_version"
     THEN handle_get_version_command
     ELSE IF command.tag = "start_scan"
     THEN handle_start_scan_command(command)
     ELSE IF command.tag = "get_scans"
     THEN handle_get_scans_command(command)
     ELSE IF command.tag = "delete_scan"
     THEN handle_delete_scan_command(command)
     ELSE IF command.tag = "help"
     THEN handle_help_command(command)
     ELSE IF command.tag = "get_scanner_details"
     THEN handle_get_scanner_details
     ELSE /\ AssertFalse
          /\ UNCHANGED <<scan_collection, next_id, touched, steps>>

\* handle_client_stream, lines 308-318: stream.read times out (ssl.SSLError)
\* and the loop is left; what was read, if anything, is the command
ReadTimesOut(requests) ==
  /\ pc = "read"
  /\ peer = "open"
  /\ peer' = "none"
  /\ data' = 0
  /\ written' = <<>>
  /\ IF data = 0
     THEN /\ pc' = "close"
          /\ UNCHANGED <<scan_collection, next_id, tree, scan_id, ids,
                         progress, end_time, response, touched, steps, seen>>
     ELSE \E command \in requests : handle_command(command)
  /\ UNCHANGED instants

\* xml.sax.saxutils.escape, on the values the results of the model hold
xml_escape(value) == IF value = "<log>" THEN "&lt;log&gt;" ELSE value

\* get_result_xml: the <result> element of a result
get_result_xml(result) ==
  [element |-> "result", name |-> result.name, type |-> result.type,
   severity |-> result.severity, text |-> xml_escape(result.value)]

\* OSPDaemon.get_scan_results_xml: the <result> elements, in the order of
\* results_iterator
OnlyLastResult(results) ==
  IF results = <<>> THEN <<>>
  ELSE <<get_result_xml(results[Len(results)])>>

get_scan_results_xml(results) ==
  [i \in DOMAIN results |-> get_result_xml(results[i])]

\* get_scan_xml, lines 508-516: the <scan> element
ScanXml(id, scan, p, e, detailed) ==
  [id |-> id, target |-> scan.target, progress |-> p,
   start_time |-> scan.start_time, end_time |-> e, detailed |-> detailed,
   results |-> IF detailed THEN get_scan_results_xml(scan.results)
               ELSE <<>>]

\* the <scan> element of a scan as it is at one instant
Snapshot(id, scan, detailed) ==
  ScanXml(id, scan, scan.progress, scan.end_time, detailed)

\* check_scan_thread, lines 619-620: the thread and the progress are read
CheckScanThreadReads ==
  /\ pc = "check_scan_thread"
  /\ progress' = scan_collection[scan_id].progress
  /\ pc' = "is_alive"
  /\ UNCHANGED <<scan_collection, next_id, peer, data, tree, scan_id, ids,
                 end_time, response, written, touched, steps, seen>>
  /\ UNCHANGED instants

\* check_scan_thread, lines 622-623: the scan is terminated
OnlyAddsFailure(sc, id) == add_result(sc, id, ThreadFailure)

TerminateScans(sc, id) ==
  [i \in DOMAIN sc |->
     add_result(set_progress(sc, i, FinishedProgress), i, ThreadFailure)[i]]

TerminateScan(sc, id) ==
  add_result(set_progress(sc, id, FinishedProgress), id, ThreadFailure)

\* check_scan_thread, line 621: the condition on the progress read before
\* and on the thread as it is now
ThreadDead(p, t) == ~is_alive(t)

ThreadLost(p, t) == p < FinishedProgress /\ ~is_alive(t)

\* check_scan_thread, lines 621-624, then back in the handler
CheckScanThread ==
  /\ pc = "is_alive"
  /\ IF ThreadLost(progress, scan_collection[scan_id].thread)
     THEN /\ scan_collection' = TerminateScan(scan_collection, scan_id)
          /\ touched' = TRUE
     ELSE UNCHANGED <<scan_collection, touched, steps, seen>>
  /\ pc' = IF tree.tag = "delete_scan" THEN "delete_scan"
           ELSE "get_scan_xml"
  /\ instants' = IF tree.tag = "delete_scan" THEN {}
                 ELSE {Snapshot(scan_id, scan_collection'[scan_id],
                                Detailed(tree))}
  /\ UNCHANGED <<next_id, peer, data, tree, scan_id, ids, progress,
                 end_time, response, written, steps, seen>>

\* get_scan_xml, lines 504-505: the target and the progress are read
GetScanProgress ==
  /\ pc = "get_scan_xml"
  /\ progress' = scan_collection[scan_id].progress
  /\ pc' = "get_scan_end_time"
  /\ UNCHANGED <<scan_collection, next_id, peer, data, tree, scan_id, ids,
                 end_time, response, written, touched, steps, seen>>
  /\ UNCHANGED instants

\* get_scan_xml, lines 506-507: the start and the end time are read
GetScanEndTime ==
  /\ pc = "get_scan_end_time"
  /\ end_time' = scan_collection[scan_id].end_time
  /\ pc' = "get_scan_results"
  /\ UNCHANGED <<scan_collection, next_id, peer, data, tree, scan_id, ids,
                 progress, response, written, touched, steps, seen>>
  /\ UNCHANGED instants

\* get_scan_xml, lines 508-516, then handle_get_scans_command, lines 378
\* and 383-387: the element joins the response and the loop goes on
GetScanResults ==
  /\ pc = "get_scan_results"
  /\ LET scan_str == ScanXml(scan_id, scan_collection[scan_id], progress,
                             end_time, Detailed(tree))
         content == Append(response.content, scan_str)
     IN IF ids = <<>>
        THEN GetScansDone(content)
        ELSE /\ NextScan(ids)
             /\ response' = [response EXCEPT !.content = content]
  /\ instants' = {}
  /\ UNCHANGED <<scan_collection, next_id, peer, data, tree, written,
                 touched, steps, seen>>

\* OSPDaemon.delete_scan: whether the scan was deleted, and the scan
\* collection after the call
DeletesAnyScan(sc, id) == [deleted |-> TRUE, scans |-> without_scan(sc, id)]

ForgetsToDelete(sc, id) == [deleted |-> may_delete(sc, id), scans |-> sc]

delete_scan(sc, id) ==
  IF may_delete(sc, id)
  THEN [deleted |-> TRUE, scans |-> without_scan(sc, id)]
  ELSE [deleted |-> FALSE, scans |-> sc]

\* handle_delete_scan_command, lines 452-454
DeleteScan ==
  /\ pc = "delete_scan"
  /\ IF delete_scan(scan_collection, scan_id).deleted
     THEN /\ scan_collection' = delete_scan(scan_collection, scan_id).scans
          /\ touched' = TRUE
          /\ Return(simple_response_str("delete_scan", 200, "OK", <<>>))
     ELSE /\ Raise(OSPDError("Scan in progress", "delete_scan"))
          /\ UNCHANGED <<scan_collection, touched, steps, seen>>
  /\ UNCHANGED <<next_id, peer, data, tree, written, steps, seen>>
  /\ UNCHANGED instants

\* handle_client_stream, line 318: stream.write(response)
WriteResponse ==
  /\ pc = "write"
  /\ written' = Append(written, response)
  /\ pc' = "close"
  /\ UNCHANGED <<scan_collection, next_id, peer, data, tree, scan_id, ids,
                 progress, end_time, response, touched, steps, seen>>
  /\ UNCHANGED instants

\* OSPDaemon.close_client_stream, then run() accepts the next connection
CloseClientStream ==
  /\ pc = "close"
  /\ pc' = "accept"
  /\ tree' = NoRequest
  /\ response' = NoResponse
  /\ written' = <<>>
  /\ touched' = FALSE
  /\ seen' = <<>>
  /\ UNCHANGED <<scan_collection, next_id, peer, data, scan_id, ids,
                 progress, end_time, steps>>
  /\ UNCHANGED instants

\* ----------------------------------------------------- the scan threads
\* a step of the thread of scan id changes the scan collection only
ScanThreadStep(id) ==
  /\ id \in DOMAIN scan_collection
  /\ is_alive(scan_collection[id].thread)
  /\ steps < MaxThreadSteps
  /\ steps' = steps + 1
  /\ UNCHANGED <<next_id, pc, peer, data, tree, scan_id, ids, progress,
                 end_time, response, written, touched, seen>>

\* the state the scan of get_scan_xml is in after a step of its thread
Observed(id) ==
  instants' = IF instants # {} /\ id = scan_id
              THEN instants
                   \cup {Snapshot(id, scan_collection'[id], Detailed(tree))}
              ELSE instants

\* OSPDaemon.set_scan_progress, called by exec_scan
SetScanProgress(id) ==
  /\ ScanThreadStep(id)
  /\ scan_collection[id].thread = "alive"
  /\ scan_collection[id].progress # WorkerProgress
  /\ scan_collection' = set_progress(scan_collection, id, WorkerProgress)
  /\ Observed(id)

\* OSPDaemon.add_scan_log, called by exec_scan
AddScanLog(id) ==
  /\ ScanThreadStep(id)
  /\ scan_collection[id].thread = "alive"
  /\ scan_collection' = add_result(scan_collection, id, LogResult)
  /\ Observed(id)

\* OSPDaemon.finish_scan
finish_scan(sc, id) == set_progress(sc, id, FinishedProgress)

\* OSPDaemon.finish_scan, called by exec_scan
FinishScan(id) ==
  /\ ScanThreadStep(id)
  /\ scan_collection[id].thread = "alive"
  /\ scan_collection[id].progress # FinishedProgress
  /\ scan_collection' = finish_scan(scan_collection, id)
  /\ Observed(id)

\* OSPDaemon.handle_timeout, lines 346-348: the Timeout error is added
HandleTimeout(id) ==
  /\ ScanThreadStep(id)
  /\ scan_collection[id].thread = "alive"
  /\ scan_collection' =
       set_thread(add_result(scan_collection, id, TimeoutError), id,
                  "timeout")
  /\ Observed(id)

\* OSPDaemon.handle_timeout, line 349: finish_scan
HandleTimeoutFinish(id) ==
  /\ ScanThreadStep(id)
  /\ scan_collection[id].thread = "timeout"
  /\ scan_collection' =
       set_thread(finish_scan(scan_collection, id), id, "alive")
  /\ Observed(id)

\* OSPDaemon.handle_timeout, lines 346-348, called once for a scan by a
\* supervisor of its thread: the calls of a supervisor are not steps of the
\* scan thread
SupervisorTimeout(id) ==
  /\ id \in DOMAIN scan_collection
  /\ scan_collection[id].thread = "alive"
  /\ TimeoutError \notin
       {scan_collection[id].results[i] :
          i \in DOMAIN scan_collection[id].results}
  /\ scan_collection' =
       set_thread(add_result(scan_collection, id, TimeoutError), id,
                  "timeout")
  /\ Observed(id)
  /\ UNCHANGED <<next_id, pc, peer, data, tree, scan_id, ids, progress,
                 end_time, response, written, touched, steps, seen>>

\* OSPDaemon.handle_timeout, line 349, called by a supervisor
SupervisorTimeoutFinish(id) ==
  /\ id \in DOMAIN scan_collection
  /\ scan_collection[id].thread = "timeout"
  /\ scan_collection' =
       set_thread(finish_scan(scan_collection, id), id, "alive")
  /\ Observed(id)
  /\ UNCHANGED <<next_id, pc, peer, data, tree, scan_id, ids, progress,
                 end_time, response, written, touched, steps, seen>>

\* exec_scan returns or raises (OSPDaemon.exec_scan raises
\* NotImplementedError): the thread ends
ThreadEndsDaemon(id) ==
  /\ id \in DOMAIN scan_collection
  /\ scan_collection[id].thread = "alive"
  /\ steps < MaxThreadSteps
  /\ steps' = steps + 1
  /\ pc' = "crashed"
  /\ scan_collection' = set_thread(scan_collection, id, "dead")
  /\ Observed(id)
  /\ UNCHANGED <<next_id, peer, data, tree, scan_id, ids, progress,
                 end_time, response, written, touched, seen>>

ThreadEnds(id) ==
  /\ ScanThreadStep(id)
  /\ scan_collection[id].thread = "alive"
  /\ scan_collection' = set_thread(scan_collection, id, "dead")
  /\ Observed(id)

\* ----------------------------------------------------- specifications
Dispatch(requests) ==
  \/ NewClientStreamFails
  \/ NewClientStream
  \/ PeerCloses
  \/ ReadChunk
  \/ ReadNothing
  \/ ReadFails
  \/ ReadTimesOut(requests)
  \/ CheckScanThreadReads
  \/ CheckScanThread
  \/ GetScanProgress
  \/ GetScanEndTime
  \/ GetScanResults
  \/ DeleteScan
  \/ WriteResponse
  \/ CloseClientStream

ScanThreads ==
  \E id \in ScanIds :
    \/ SetScanProgress(id)
    \/ AddScanLog(id)
    \/ FinishScan(id)
    \/ HandleTimeout(id)
    \/ HandleTimeoutFinish(id)
    \/ ThreadEnds(id)

Next == Dispatch(PlainRequests) \/ ScanThreads

Spec == Init /\ [][Next]_vars

\* the daemon with every choice of client parameters and scan threads that
\* only end
NextParams == Dispatch(ParamRequests) \/ (\E id \in ScanIds : ThreadEnds(id))

SpecParams == Init /\ [][NextParams]_vars

\* the daemon with every choice of details and scan threads that only add
\* results and end
NextDetails ==
  \/ Dispatch(DetailRequests)
  \/ \E id \in ScanIds : AddScanLog(id) \/ ThreadEnds(id)

SpecDetails == Init /\ [][NextDetails]_vars

\* the daemon with a supervisor that calls handle_timeout for the scans, and
\* scan threads that report their progress and end
NextTimeout ==
  \/ Dispatch(TimeoutRequests)
  \/ \E id \in ScanIds :
       \/ SupervisorTimeout(id)
       \/ SupervisorTimeoutFinish(id)
       \/ SetScanProgress(id)
       \/ ThreadEnds(id)

SpecTimeout == Init /\ [][NextTimeout]_vars

\* the steps the dispatch thread takes by itself once a client is
\* connected: the returns of stream.read when the client is silent (the
\* timeout of 2 seconds) or gone, the handlers, the write and the close
DispatchSteps(requests) ==
  \/ ReadNothing
  \/ ReadTimesOut(requests)
  \/ CheckScanThreadReads
  \/ CheckScanThread
  \/ GetScanProgress
  \/ GetScanEndTime
  \/ GetScanResults
  \/ DeleteScan
  \/ WriteResponse
  \/ CloseClientStream

\* the daemon with scan threads that only end and a dispatch thread that
\* goes on whenever it can
NextLoop == Dispatch(LoopRequests) \/ (\E id \in ScanIds : ThreadEnds(id))

SpecLoop ==
  Init /\ [][NextLoop]_vars /\ WF_vars(DispatchSteps(LoopRequests))

\* the daemon with clients whose connection can be reset while the read
\* loop waits for them, and scan threads that only end
NextConnect ==
  \/ Dispatch(LoopRequests)
  \/ ReadRaises
  \/ \E id \in ScanIds : ThreadEnds(id)

SpecConnect == Init /\ [][NextConnect]_vars

\* ------------------------------------------------------------- claims
\* the dispatch thread holds the response of the request in tree
Answering == pc \in {"write", "close"}

\* the request in tree has been handled to the end, one way or another
Handled == pc \in {"write", "close", "crashed"} /\ tree # NoRequest

ErrorResponse == response.status \notin {0, 200}

BogusResponse == simple_response_str("osp", 400, "Bogus command name", <<>>)

\* the ids create_scan has handed out; those of them no longer registered
Created == 1 .. (next_id - 1)

Deleted == Created \ DOMAIN scan_collection

\* C1: every request that is fully received is answered with exactly one
\* response written on its connection, whatever the payload: by the time
\* the dispatch thread is done with the request (the connection is about to
\* be closed, or run() has been left), one response has been written.
C1_EveryRequestAnswered ==
  /\ Len(written) <= 1
  /\ (tree # NoRequest /\ pc \in {"close", "crashed"}) => Len(written) = 1

\* the requests whose error does not depend on the scan collection:
\* malformed XML, unknown command, missing attribute or element
StaticError(req) ==
  \/ ~req.xml
  \/ req.tag \notin commands /\ req.tag # "authenticate"
  \/ req.tag = "start_scan" /\ (req.target = None \/ ~req.has_params)
  \/ req.tag = "delete_scan" /\ req.scan_id = NoScanId

\* the requests that name a scan that was not registered
UnknownScan(req) ==
  /\ seen = <<>>
  /\ \/ req.tag = "get_scans" /\ req.scan_id \notin {NoScanId, EmptyScanId}
     \/ req.tag = "delete_scan" /\ req.scan_id # NoScanId

C2_Converted ==
  /\ (Handled /\ (StaticError(tree) \/ UnknownScan(tree)))
       => (Answering /\ ErrorResponse)
  /\ (Answering /\ ErrorResponse)
       => /\ ~touched
          /\ response.command # ""
          /\ response.status \in {400, 404}
          /\ response.status_text # ""
  /\ (pc = "close" /\ tree # NoRequest) => written = <<response>>

C2_LoopGoesOn ==
  /\ (pc = "write" /\ pc' # pc)
       => (pc' = "close" /\ written' = <<response>>
           /\ scan_collection' = scan_collection)
  /\ (pc = "close" /\ pc' # pc)
       => (pc' = "accept" /\ scan_collection' = scan_collection)
  /\ (pc # "accept" /\ pc' = "accept") => pc = "close"

\* C2: a protocol-level error (malformed XML, unknown command, missing
\* attribute or element, unknown scan id, delete of a running scan) becomes
\* an error response, which is written on the connection; the dispatch
\* thread then closes the connection and accepts the next one; the handler
\* has changed nothing in the scan collection.
C2_ErrorsBecomeResponses == []C2_Converted /\ [][C2_LoopGoesOn]_vars

C2_Witness ==
  /\ pc = "close"
  /\ tree.tag = "delete_scan"
  /\ written = <<asXML(OSPDError("Scan in progress", "delete_scan"))>>
  /\ tree.scan_id \in DOMAIN scan_collection
  /\ is_alive(scan_collection[tree.scan_id].thread)

\* C3 as claimed: every well-formed request whose root tag is not a key of
\* the command table is answered with the 'Bogus command name' response of
\* command 'osp', and no handler has run.
C3_UnknownTagIsBogus ==
  (Handled /\ tree.xml /\ tree.tag \notin commands)
    => (Answering /\ response = BogusResponse /\ ~touched
        /\ scan_id = NoScanId)

\* C3, amended: every well-formed request whose root tag is neither a key
\* of the command table nor 'authenticate' is answered with the 'Bogus
\* command name' response of command 'osp' (status 400, empty body), and no
\* handler has run.
C3_UnknownTagButAuthenticate ==
  (Handled /\ tree.xml /\ tree.tag \notin commands
     /\ tree.tag # "authenticate")
    => (Answering /\ response = BogusResponse /\ ~touched
        /\ scan_id = NoScanId)

C3_Witness ==
  /\ pc = "close"
  /\ tree.tag = "bogus_command"
  /\ written = <<BogusResponse>>

ScanInProgress == asXML(OSPDError("Scan in progress", "delete_scan"))

\* C4 as claimed: a delete_scan of a registered scan whose progress is
\* below 100 when the request arrives is answered 'Scan in progress'
\* (status 400) and the scan is still registered, whatever its thread.
C4_RunningScanIsKept ==
  (Answering /\ tree.tag = "delete_scan" /\ seen # <<>>
     /\ seen[1].progress < FinishedProgress)
    => (response = ScanInProgress
        /\ tree.scan_id \in DOMAIN scan_collection)

C4_AtTheDelete ==
  (pc = "delete_scan" /\ pc' # pc
     /\ scan_collection[scan_id].progress < FinishedProgress)
    => /\ response' = ScanInProgress
       /\ scan_id \in DOMAIN scan_collection'
       /\ scan_collection' = scan_collection

C4_Answer ==
  (Answering /\ tree.tag = "delete_scan" /\ seen # <<>>)
    => /\ response = ScanInProgress
          => (tree.scan_id \in DOMAIN scan_collection /\ ~touched)
       /\ response # ScanInProgress
          => (response.status = 200
              /\ tree.scan_id \notin DOMAIN scan_collection)
       /\ (seen[1].progress < FinishedProgress /\ ~is_alive(seen[1].thread))
          => response.status = 200

\* C4, amended: a delete_scan of a registered scan whose progress is still
\* below 100 when the handler, after its liveness check, asks the scan
\* collection to delete it is answered 'Scan in progress' (status 400) and
\* the scan stays registered, unchanged; a scan whose progress was below
\* 100 when the request arrived and whose thread was dead then is
\* terminated by the liveness check and deleted (status 200).
C4_RunningScanIsKeptAtTheDelete == []C4_Answer /\ [][C4_AtTheDelete]_vars

C4_Witness ==
  /\ pc = "close"
  /\ tree.tag = "delete_scan"
  /\ seen # <<>>
  /\ seen[1].progress < FinishedProgress
  /\ written = <<ScanInProgress>>
  /\ tree.scan_id \in DOMAIN scan_collection
  /\ scan_collection[tree.scan_id].progress < FinishedProgress

C5_AtTheDelete ==
  (pc = "delete_scan" /\ pc' # pc
     /\ scan_collection[scan_id].progress = FinishedProgress)
    => /\ response' = simple_response_str("delete_scan", 200, "OK", <<>>)
       /\ scan_id \notin DOMAIN scan_collection'
       /\ scan_id \in Deleted'

C5_Later ==
  (pc = "read" /\ pc' # pc /\ tree'.tag \in {"get_scans", "delete_scan"}
     /\ tree'.scan_id \in Deleted)
    => /\ pc' = "write"
       /\ response'.command = tree'.tag
       /\ response'.status = 404
       /\ response'.content = <<>>
       /\ scan_collection' = scan_collection

C5_Forever == Deleted \subseteq Deleted'

\* C5: a delete_scan of a registered scan whose progress is 100 (when the
\* scan collection is asked to delete it) is answered with status 200 and
\* removes the scan; the scan id is never registered again, and every later
\* get_scans or delete_scan with that scan_id is answered with status 404.
C5_DeletedScanIsGone ==
  [][C5_AtTheDelete /\ C5_Later /\ C5_Forever]_vars

C5_Witness ==
  /\ pc = "close"
  /\ tree.tag = "get_scans"
  /\ tree.scan_id \in Deleted
  /\ Len(written) = 1
  /\ written[1].status = 404

\* the number of times r is among the results
Count(results, r) == Cardinality({i \in DOMAIN results : results[i] = r})

\* a scan record after its termination by the liveness check
Terminated(scan) ==
  [scan EXCEPT !.progress = FinishedProgress, !.end_time = 1,
               !.results = Append(@, ThreadFailure)]

\* the liveness check of the scan the request names is done
NamedScanChecked ==
  /\ seen # <<>>
  /\ tree.scan_id \in DOMAIN scan_collection
  /\ pc \in {"get_scan_xml", "get_scan_end_time", "get_scan_results",
             "delete_scan", "write", "close"}

C6_State ==
  /\ \A id \in DOMAIN scan_collection :
       /\ Count(scan_collection[id].results, ThreadFailure) <= 1
       /\ Count(scan_collection[id].results, ThreadFailure) = 1
            => (~is_alive(scan_collection[id].thread)
                /\ scan_collection[id].progress = FinishedProgress)
  /\ (NamedScanChecked /\ ~is_alive(seen[1].thread)
        /\ seen[1].progress < FinishedProgress)
       => scan_collection[tree.scan_id] = Terminated(seen[1])
  /\ (seen # <<>> /\ tree.scan_id \in DOMAIN scan_collection
        /\ Count(seen[1].results, ThreadFailure) = 1)
       => scan_collection[tree.scan_id] = seen[1]

C6_AtTheCheck ==
  (pc = "is_alive" /\ pc' # pc
     /\ ~is_alive(scan_collection[scan_id].thread)
     /\ progress < FinishedProgress
     /\ scan_collection[scan_id].progress < FinishedProgress)
    => scan_collection' =
         [scan_collection EXCEPT ![scan_id] = Terminated(@)]

\* C6: when the thread of a scan is dead and its progress below 100, the
\* liveness check of a get_scans or delete_scan sets the progress to 100
\* and appends one 'Scan thread failure.' Error result; no scan ever holds
\* a second one, and a later query of the scan changes nothing in it.
C6_ThreadFailureOnce == []C6_State /\ [][C6_AtTheCheck]_vars

C6_Witness ==
  /\ pc = "close"
  /\ tree.tag = "get_scans"
  /\ seen # <<>>
  /\ Count(seen[1].results, ThreadFailure) = 1
  /\ scan_collection[tree.scan_id] = seen[1]
  /\ written[1].status = 200

C7_Step ==
  (pc = "read" /\ pc' # pc /\ tree'.xml /\ tree'.tag = "start_scan"
     /\ (tree'.target = None \/ ~tree'.has_params))
    => /\ pc' = "write"
       /\ response' =
            simple_response_str(
              "start_scan", 400,
              IF tree'.target = None THEN "No target attribute"
              ELSE "No scanner_params element", <<>>)
       /\ scan_collection' = scan_collection
       /\ next_id' = next_id

\* C7: a start_scan request without a target attribute, or without a
\* scanner_params element, is answered with a start_scan response of status
\* 400 whose text names what is missing; no scan is created, no thread is
\* started.
C7_MissingFieldIsRefused == [][C7_Step]_vars

C7_Witness ==
  /\ pc = "close"
  /\ tree.tag = "start_scan"
  /\ tree.target # None
  /\ ~tree.has_params
  /\ written = <<simple_response_str("start_scan", 400,
                                     "No scanner_params element", <<>>)>>

\* the defaults of the declared scanner parameters
DeclaredDefaults == [scan_type |-> "full", port |-> "80"]

\* C8: the options stored for the scan a start_scan request creates hold a
\* value for every declared parameter: the client's where the
\* scanner_params element gives one, the declared default otherwise; with
\* no parameter given they are exactly the declared defaults.
C8_OptionsAreMerged ==
  /\ \A id \in DOMAIN scan_collection :
       DOMAIN DeclaredDefaults \subseteq DOMAIN scan_collection[id].options
  /\ (Answering /\ tree.tag = "start_scan" /\ response.status = 200)
       => LET options == scan_collection[response.content[1].id].options
              given == tree.scanner_params
          IN /\ \A p \in DOMAIN DeclaredDefaults :
                  options[p] = IF p \in DOMAIN given THEN given[p]
                               ELSE DeclaredDefaults[p]
             /\ DOMAIN given = {} => options = DeclaredDefaults

C8_Witness ==
  /\ pc = "close"
  /\ tree.tag = "start_scan"
  /\ DOMAIN tree.scanner_params = {"scan_type"}
  /\ Len(written) = 1
  /\ written[1].status = 200
  /\ scan_collection[written[1].content[1].id].options =
       [scan_type |-> "quick", port |-> "80"]

\* the ids of the <scan> elements of a response
ListedIds(r) == {r.content[i].id : i \in DOMAIN r.content}

\* C9: a get_scans request without scan_id is answered with status 200 and
\* one <scan> element for each registered scan: as many elements as scans,
\* and every registered id among them.
C9_OneElementPerScan ==
  (Answering /\ tree.tag = "get_scans" /\ tree.scan_id = NoScanId)
    => /\ response.command = "get_scans"
       /\ response.status = 200
       /\ Len(response.content) = Cardinality(DOMAIN scan_collection)
       /\ ListedIds(response) = DOMAIN scan_collection

C9_Witness ==
  /\ pc = "close"
  /\ tree.tag = "get_scans"
  /\ tree.scan_id = NoScanId
  /\ Len(written) = 1
  /\ Len(written[1].content) = 2
  /\ ListedIds(written[1]) = {1, 2}

\* the answer to a get_scans request that names scan id
AnswerForOne(id) ==
  IF id \in DOMAIN scan_collection
  THEN /\ response.status = 200
       /\ Len(response.content) = 1
       /\ response.content[1].id = id
  ELSE /\ response.status = 404
       /\ response.content = <<>>

\* C10 as claimed: a get_scans request with a scan_id attribute is answered
\* with status 200 and the <scan> element of that scan when the value is a
\* registered id, and with status 404 and no <scan> element for every other
\* value, the empty string included.
C10_OneScanOrNotFound ==
  (Answering /\ tree.tag = "get_scans" /\ tree.scan_id # NoScanId)
    => AnswerForOne(tree.scan_id)

\* C10, amended: a get_scans request with a non-empty scan_id attribute is
\* answered with status 200 and the <scan> element of that scan when the
\* value is a registered id, and with status 404 and no <scan> element when
\* it is not; an empty scan_id is handled as an absent one: status 200 and
\* the <scan> elements of all the registered scans.
C10_NonEmptyScanId ==
  /\ (Answering /\ tree.tag = "get_scans"
        /\ tree.scan_id \notin {NoScanId, EmptyScanId})
       => AnswerForOne(tree.scan_id)
  /\ (Answering /\ tree.tag = "get_scans" /\ tree.scan_id = EmptyScanId)
       => /\ response.status = 200
          /\ Len(response.content) = Cardinality(DOMAIN scan_collection)
          /\ ListedIds(response) = DOMAIN scan_collection

C10_Witness ==
  /\ pc = "close"
  /\ tree.tag = "get_scans"
  /\ tree.scan_id \in ScanIds \ DOMAIN scan_collection
  /\ DOMAIN scan_collection # {}
  /\ Len(written) = 1
  /\ written[1].status = 404

\* whether the elements of xml are the <result> elements of the first
\* results, one for one and in the same order
ReadBack(xml, results) ==
  /\ Len(xml) <= Len(results)
  /\ \A i \in DOMAIN xml :
       /\ xml[i].name = results[i].name
       /\ xml[i].type = results[i].type
       /\ xml[i].text = xml_escape(results[i].value)

C11_Step ==
  (pc = "get_scan_results" /\ pc' # pc)
    => LET content == response'.content
           scan_str == content[Len(content)]
           scan == scan_collection[scan_id]
       IN /\ Len(content) = Len(response.content) + 1
          /\ scan_str.id = scan_id
          /\ scan_str.target = scan.target
          /\ scan_str.progress = scan.progress
          /\ scan_str.start_time = scan.start_time
          /\ scan_str.end_time = scan.end_time
          /\ tree.details # "0"
               => (Len(scan_str.results) = Len(scan.results)
                   /\ ReadBack(scan_str.results, scan.results))
          /\ tree.details = "0" => scan_str.results = <<>>

C11_State ==
  (Answering /\ tree.tag = "get_scans" /\ response.status = 200)
    => \A i \in DOMAIN response.content :
         LET scan_str == response.content[i]
         IN /\ scan_str.id \in DOMAIN scan_collection
            /\ scan_str.target = Target
            /\ ReadBack(scan_str.results,
                        scan_collection[scan_str.id].results)
            /\ tree.details = "0" => scan_str.results = <<>>

\* C11: the <scan> element get_scans builds for a scan holds, with details
\* enabled (details absent or not '0'), one <result> element for each of
\* the results appended to the scan so far, in the order they were
\* appended; with details='0' it holds no <result> element; either way it
\* reports the target, the progress and the start and end time of the scan.
C11_ResultsReadBack == []C11_State /\ [][C11_Step]_vars

C11_Witness ==
  /\ pc = "close"
  /\ tree.tag = "get_scans"
  /\ tree.details = "1"
  /\ Len(written) = 1
  /\ Len(written[1].content) = 1
  /\ written[1].content[1].results =
       <<get_result_xml(LogResult), get_result_xml(ThreadFailure)>>
  /\ written[1].content[1].progress = FinishedProgress

C12_Step ==
  (pc = "read" /\ pc' # pc /\ tree'.xml /\ tree'.tag = "start_scan"
     /\ tree'.target # None /\ tree'.has_params)
    => /\ pc' = "write"
       /\ response' =
            simple_response_str("start_scan", 200, "OK", <<[id |-> next_id]>>)
       /\ DOMAIN scan_collection' = DOMAIN scan_collection \cup {next_id}
       /\ next_id \notin DOMAIN scan_collection
       /\ scan_collection'[next_id].thread = "alive"
       /\ scan_collection'[next_id].progress < FinishedProgress
       /\ \A id \in DOMAIN scan_collection :
            scan_collection'[id] = scan_collection[id]

C12_NoWait ==
  /\ pc = "write" => ENABLED WriteResponse
  /\ pc = "close" => ENABLED CloseClientStream
  /\ pc \in {"write", "close", "accept"}
       => \A id \in DOMAIN scan_collection :
            (scan_collection[id].thread = "alive" /\ steps < MaxThreadSteps)
              => ENABLED AddScanLog(id)

C12_ThreadLeftAlone ==
  (pc \in {"write", "close"} /\ pc' # pc)
    => /\ scan_collection' = scan_collection
       /\ pc = "write" => (pc' = "close" /\ written' = <<response>>)
       /\ pc = "close" => pc' = "accept"

\* C12: a start_scan request with a target and a scanner_params element is
\* answered with status 200 and the id of the new scan once the thread of
\* the scan is started, its progress still below 100; writing the response
\* and closing the connection are possible whatever the progress of the
\* scan is and change nothing in the scan, and the thread can go on while
\* and after they happen.
C12_AnsweredAtOnce ==
  []C12_NoWait /\ [][C12_Step /\ C12_ThreadLeftAlone]_vars

C12_Witness ==
  /\ pc = "close"
  /\ tree.tag = "start_scan"
  /\ written = <<simple_response_str("start_scan", 200, "OK", <<[id |-> 1]>>)>>
  /\ scan_collection[1].thread = "alive"
  /\ scan_collection[1].progress = WorkerProgress
  /\ scan_collection[1].results = <<LogResult>>

\* the scans that are terminal and stay registered in the step
TerminalKept ==
  {id \in DOMAIN scan_collection \cap DOMAIN scan_collection' :
     scan_collection[id].progress = FinishedProgress}

C13_Step ==
  \A id \in TerminalKept : scan_collection'[id].progress = FinishedProgress

\* C13: a scan whose progress is 100 keeps the progress 100 for as long as
\* it is registered, whatever the scan threads and the dispatch thread call.
C13_TerminalStays == [][C13_Step]_vars

C14_Step ==
  \A id \in TerminalKept :
    scan_collection'[id].results = scan_collection[id].results

\* C14: a scan whose progress is 100 keeps its results as they are for as
\* long as it is registered: nothing is appended to them.
C14_TerminalResultsFrozen == [][C14_Step]_vars

C15_Step ==
  (pc = "get_scan_results" /\ pc' # pc)
    => response'.content[Len(response'.content)] \in instants

\* C15: the <scan> element get_scans builds for a scan is the element of
\* one of the states the scan has had while it was built: its progress, its
\* start and end time and its results are those of one instant.
C15_OneInstant == [][C15_Step]_vars

\* the scan threads that ended after finish_scan: the progress is 100 and
\* it was not the liveness check that set it
CompletedNormally(scan) ==
  /\ scan.thread = "dead"
  /\ scan.progress = FinishedProgress
  /\ Count(scan.results, ThreadFailure) = 0
  /\ Count(scan.results, TimeoutError) = 0

C16_Step ==
  \A id \in DOMAIN scan_collection \cap DOMAIN scan_collection' :
    CompletedNormally(scan_collection[id])
      => Count(scan_collection'[id].results, ThreadFailure) = 0

\* C16: a scan whose thread has called finish_scan (progress 100) and then
\* ended holds no 'Scan thread failure.' result, and no liveness check of
\* get_scans or delete_scan gives it one, however the check and the thread
\* interleave.
C16_NoFailureAfterFinish == [][C16_Step]_vars

\* handle_timeout has been called for the scan and has returned
TimedOut(scan) ==
  Count(scan.results, TimeoutError) >= 1 /\ scan.thread # "timeout"

C17_Call(id) ==
  LET scan == scan_collection[id]
      after == scan_collection'[id]
  IN /\ (scan.thread = "alive" /\ after.thread = "timeout")
          => /\ after.results = Append(scan.results, TimeoutError)
             /\ after.progress = scan.progress
     /\ (scan.thread = "timeout" /\ after # scan)
          => /\ Count(scan.results, TimeoutError) = 1
             /\ after.results = scan.results
             /\ after.progress = FinishedProgress
             /\ after.thread = "alive"

C17_CheckAfter ==
  (pc = "is_alive" /\ pc' # pc /\ seen # <<>> /\ scan_id = tree.scan_id
     /\ TimedOut(seen[1]))
    => scan_collection'[scan_id].results = scan_collection[scan_id].results

C17_Step ==
  /\ \A id \in DOMAIN scan_collection \cap DOMAIN scan_collection' :
       C17_Call(id)
  /\ C17_CheckAfter

\* C17: handle_timeout for a running scan appends one Timeout Error result,
\* the progress as it was, and then sets the progress to 100, the results
\* as they were; the liveness check of a request that arrives after
\* handle_timeout has returned appends no 'Scan thread failure.' result
\* to the scan.
C17_TimeoutThenTerminal == [][C17_Step]_vars

\* the variables of the dispatch thread and of the connection
dispatch_vars ==
  <<next_id, pc, peer, data, tree, scan_id, ids, progress, end_time,
    response, written, touched>>

C18_Step ==
  \A id \in DOMAIN scan_collection :
    (scan_collection[id].thread = "alive"
       /\ id \in DOMAIN scan_collection'
       /\ scan_collection'[id].thread = "dead")
      => /\ UNCHANGED dispatch_vars
         /\ scan_collection' =
              [scan_collection EXCEPT ![id].thread = "dead"]

C18_State ==
  (\E id \in DOMAIN scan_collection : scan_collection[id].thread = "dead")
    => /\ pc = "accept" => ENABLED NewClientStream
       /\ pc = "read" => ENABLED (ReadTimesOut(PlainRequests) \/ ReadNothing)
       /\ pc = "check_scan_thread" => ENABLED CheckScanThreadReads
       /\ pc = "is_alive" => ENABLED CheckScanThread
       /\ pc = "get_scan_xml" => ENABLED GetScanProgress
       /\ pc = "get_scan_end_time" => ENABLED GetScanEndTime
       /\ pc = "get_scan_results" => ENABLED GetScanResults
       /\ pc = "delete_scan" => ENABLED DeleteScan
       /\ pc = "write" => ENABLED WriteResponse
       /\ pc = "close" => ENABLED CloseClientStream

\* C18: the end of a scan thread by an error of exec_scan changes nothing
\* but the liveness of that thread: the dispatch thread is where it was,
\* with the same request and response, every other scan has the progress
\* and the results it had, and the dispatch thread can take its next step,
\* up to the next accept, with any number of dead scan threads.
C18_OnlyTheThreadEnds == []C18_State /\ [][C18_Step]_vars

C18_Witness ==
  /\ pc = "close"
  /\ tree.tag = "get_scans"
  /\ tree.scan_id = NoScanId
  /\ Len(written) = 1
  /\ written[1].status = 200
  /\ Len(written[1].content) = 2
  /\ written[1].content[1].results = <<get_result_xml(ThreadFailure)>>
  /\ written[1].content[2].progress = WorkerProgress
  /\ scan_collection[1].thread = "dead"
  /\ scan_collection[2].thread = "alive"

C19_State ==
  /\ Len(written) <= 1
  /\ pc \in {"accept", "read"} => (tree = NoRequest /\ written = <<>>)
  /\ pc = "write" => (tree # NoRequest /\ written = <<>>)
  /\ written # <<>> => (pc = "close" /\ tree # NoRequest)

C19_Step ==
  /\ tree' # tree => (pc = "read" /\ tree = NoRequest) \/ pc = "close"
  /\ (pc' = "accept" /\ pc # "accept") => pc = "close"
  /\ (pc = "accept" /\ pc' # "accept") => pc' = "read"
  /\ pc = "write" => pc' \in {"write", "close"}
  /\ pc = "close" => pc' \in {"close", "accept"}

\* C19: a connection carries at most one request and at most one response;
\* the next connection is accepted only after the current one is closed,
\* so one request is handled at a time; and every connection whose request
\* has been read is closed, as is one whose read ended without a request.
C19_OneRequestThenClosed ==
  /\ []C19_State
  /\ [][C19_Step]_vars
  /\ (tree # NoRequest) ~> (pc = "accept")

\* C20: the read loop of handle_client_stream is always left: when the
\* client is silent, by the timeout of stream.read; when the client has
\* closed the connection, before or after sending part of a request, by
\* the empty read.
C20_ReadLoopEnds == (pc = "read") ~> (pc # "read")

\* the connection at hand has failed before a request was received: the
\* read loop has been left without a command
FailedAttempt == pc \in {"close", "crashed"} /\ tree = NoRequest

C21_Step ==
  /\ (pc = "read" /\ pc' # "read" /\ tree' = NoRequest)
       => (pc' = "close" /\ written' = <<>>
           /\ scan_collection' = scan_collection)
  /\ (FailedAttempt /\ pc' # pc)
       => (pc' = "accept" /\ written' = <<>>
           /\ scan_collection' = scan_collection)

\* C21: a connection attempt that fails before a request is received (the
\* TLS handshake fails, stream.read raises an error, or nothing was read)
\* has no response written and leaves the scan collection as it is, and
\* the dispatch thread goes on to close the stream and to accept the next
\* connection.
C21_FailedAttemptIsSilent ==
  /\ [](pc = "accept" => (written = <<>> /\ ENABLED NewClientStream))
  /\ [](FailedAttempt => (written = <<>> /\ ENABLED CloseClientStream))
  /\ [][C21_Step]_vars

\* the request the dispatch thread is handling in a step: the one
\* handle_command parses in that step, or the one in tree
Handling == IF pc = "read" THEN tree' ELSE tree

\* every scan but scan X is registered or not as before, and with the same
\* record: target, options, progress, results, thread, times
OthersUnchanged(X) ==
  \A id \in ScanIds \ {X} :
    /\ (id \in DOMAIN scan_collection') <=> (id \in DOMAIN scan_collection)
    /\ (id \in DOMAIN scan_collection)
         => scan_collection'[id] = scan_collection[id]

C22_AsClaimed ==
  (pc' # pc /\ Handling.tag \in {"get_scans", "delete_scan"}
     /\ Handling.scan_id # NoScanId)
    => OthersUnchanged(Handling.scan_id)

\* C22 as claimed: the steps the dispatch thread takes for a get_scans or a
\* delete_scan request with a scan_id attribute, whatever its value, leave
\* the existence and the record (progress, results, thread) of every scan
\* but the one the attribute names unchanged.
C22_ScopedToTheNamedScan == [][C22_AsClaimed]_vars

C22_Step ==
  (pc' # pc /\ Handling.tag \in {"get_scans", "delete_scan"}
     /\ Truthy(Handling.scan_id))
    => OthersUnchanged(Handling.scan_id)

\* C22, amended: the steps the dispatch thread takes for a get_scans or a
\* delete_scan request with a non-empty scan_id attribute leave the
\* existence and the record (progress, results, thread) of every scan but
\* the one the attribute names unchanged; a get_scans request with an empty
\* scan_id checks every registered scan, as one without the attribute.
C22_ScopedToTheNonEmptyId == [][C22_Step]_vars

\* the handler has terminated or deleted the scan the request names, next
\* to a scan it would have terminated too, had it checked it
C22_Witness ==
  /\ pc = "write"
  /\ tree.tag \in {"get_scans", "delete_scan"}
  /\ Truthy(tree.scan_id)
  /\ touched
  /\ \E id \in DOMAIN scan_collection \ {tree.scan_id} :
       /\ scan_collection[id].thread = "dead"
       /\ scan_collection[id].progress < FinishedProgress

\* the scan the request names is registered as handle_command found it, and
\* the dispatch thread has added no thread failure to it
NamedScanKept ==
  seen # <<>>
    => /\ tree.scan_id \in DOMAIN scan_collection
       /\ Count(scan_collection[tree.scan_id].results, ThreadFailure)
            = Count(seen[1].results, ThreadFailure)

\* C23: a request answered with an error response (a status other than
\* 200) leaves the scan collection as the dispatch thread found it: its
\* handler has created, started, terminated and deleted no scan, and the
\* scan it names, if any, is registered as before.
C23_ErrorsChangeNothing ==
  (Answering /\ ErrorResponse)
    => /\ ~touched
       /\ NamedScanKept
       /\ tree.tag = "start_scan" => next_id \notin DOMAIN scan_collection

\* a delete_scan refused after check_scan_thread has looked at the scan,
\* whose thread has gone on meanwhile
C23_Witness ==
  /\ pc = "write"
  /\ response = asXML(OSPDError("Scan in progress", "delete_scan"))
  /\ seen # <<>>
  /\ scan_collection[tree.scan_id] # seen[1]

\* C24: no request makes the assertions of simple_response_str fail: every
\* response built for a request, by a handler or from an OSPDError, has a
\* non-empty command, a non-zero status and a non-empty status text, and
\* the dispatch thread is never stopped by these assertions (the one
\* assertion a request reaches is that of handle_command for
\* <authenticate/>).
C24_BuilderAssertionsHold ==
  /\ (Answering /\ tree # NoRequest)
       => Asserted(response.command, response.status, response.status_text)
  /\ \A i \in DOMAIN written :
       Asserted(written[i].command, written[i].status,
                written[i].status_text)
  /\ pc = "crashed" => tree.tag = "authenticate"

\* an OSPDError raised by a handler has been converted and written
C24_Witness ==
  /\ pc = "close"
  /\ tree.tag = "help"
  /\ written = <<asXML(OSPDError("Bogus help format", "help"))>>

====
